---------------------------- MODULE Spec2Model ----------------------------
(***************************************************************************)
(* A model of the Reddit topic-modelling pipeline's two streaming stages:  *)
(*   - src/src/load_data_to_db.py : record filter, archive ingestion       *)
(*     workers, progress monitor and ingestion coordinator;                *)
(*   - src/src/embed_dataset.py   : batch fetcher, text preparer,          *)
(*     embedding loop and the incremental HDF5 vector store.               *)
(* The specifications share the variables:                                 *)
(*   SpecFilter  : the record filter applied to one bounded raw record;    *)
(*   Spec        : one run of main_load_files_in_db over two archives;     *)
(*   LiveSpec    : the same over smaller archives, with the fairness of    *)
(*                 the monitor thread;                                     *)
(*   SpecArchive : one run over a single archive of arbitrary lines;       *)
(*   SpecEmbed   : one run of create_and_save_embeddings.                  *)
(***************************************************************************)
EXTENDS Integers, Sequences, FiniteSets, TLC

VARIABLES
    \* ---- record filter (SpecFilter)
    fpc,            \* "idle" | "input" | "done"
    fRecord,        \* the raw record handed to the filter (line_json)
    fMinChars,      \* min_num_characters
    fMinScore,      \* min_score
    fResult         \* Optional[FilteredPost]: NoPost or <<post>>

VARIABLES
    \* ---- ingestion run (Spec, LiveSpec, SpecArchive): the inputs
    listing,        \* os.listdir(REDDIT_DATA_DIR), a sequence of entry names
    archive,        \* archive name -> the lines of its decompressed text
    batch_size,     \* the batch_size argument handed to every worker
    \* ---- module globals of load_data_to_db.py
    row_count,      \* rows written (global counter)
    discarded_rows, \* rows discarded (global counter)
    lockHolder,     \* owner of row_count_lock: NoThread, a worker or Monitor
    stop_monitor,   \* the monitor's stop flag
    \* ---- the relational sink
    table,          \* rows of the destination table (id is the primary key)
    \* ---- main_load_files_in_db
    mainPc,         \* position of the coordinator
    idx,            \* entries of the listing already looped over
    threads,        \* worker threads started so far, in start order
    summary,        \* the final log line: <<>> until it is emitted
    \* ---- add_compressed_file_to_db, one thread per archive
    wpc,            \* worker -> position
    pos,            \* worker -> bytes of the stream read so far
    data,           \* worker -> lines of the current chunk not yet looped over
    rows_buffer,    \* worker -> the in-memory batch
    discarded_rows_local,   \* worker -> local discard count
    local_row_count,        \* worker -> local written count
    loaded,         \* worker -> value of the global counter read by "+="
    report,         \* worker -> its end-of-file log line: <<>> until emitted
    failure,        \* worker -> the exception that ended the thread, "" if none
    \* ---- monitor_rows
    monPc,          \* position of the monitor thread
    \* ---- history (not program state)
    setupCount,     \* times the table was dropped and recreated
    parsedOk,       \* worker -> lines json.loads parsed successfully
    wholeParsed,    \* worker -> archive lines handed whole to json.loads, in order
    fragments,      \* worker -> non-empty partial lines handed to json.loads
    flushed,        \* worker -> the batches handed to insert_into_db, in order
    flushFailed,    \* worker -> number of flushes the sink rejected
    firstRun        \* <<>>, or what the first of two runs ended with

VARIABLES
    \* ---- embedding run (SpecEmbed): the inputs
    rows,           \* the rows the cursor of fetch_data_in_batches returns
    page_size,      \* MODEL_BATCH_SIZE
    modelDim,       \* the embedding dimension of the loaded model
    \* ---- create_and_save_embeddings
    epc,            \* position of the embedding coordinator
    fetched,        \* rows the cursor has returned so far
    texts,          \* texts of the current page (their ids stand for them)
    batch_ids,      \* ids of the current page
    embeddings,     \* the array generate_embeddings returned
    h5_file,        \* None until initialize_h5_file returned the path
    total_processed,
    new_size,       \* append_ids_embeddings_to_h5: the size after the append
    eFailure,       \* the exception that ended the run, "" if none
    \* ---- the HDF5 file
    store,          \* <<>> when there is no file, else <<[dim, vectors, ids]>>
    \* ---- history (not program state)
    generateCalls,  \* len(texts) of every call of generate_embeddings
    firstDim,       \* width of the first non-empty batch of embeddings, else 0
    creates,        \* calls of initialize_h5_file
    appends,        \* calls of append_ids_embeddings_to_h5 that returned
    pages           \* the pages fetch_data_in_batches has yielded, in order

filterVars == <<fpc, fRecord, fMinChars, fMinScore, fResult>>

embedInputs == <<rows, page_size, modelDim>>

embedHistory == <<generateCalls, firstDim, creates, appends, pages>>

embedVars ==
    <<embedInputs, epc, fetched, texts, batch_ids, embeddings, h5_file,
      total_processed, new_size, eFailure, store, embedHistory>>

inputVars == <<listing, archive, batch_size>>

globalVars == <<row_count, discarded_rows, lockHolder, stop_monitor>>

mainVars == <<mainPc, idx, threads, summary>>

workerVars ==
    <<wpc, pos, data, rows_buffer, discarded_rows_local, local_row_count,
      loaded, report, failure>>

historyVars == <<setupCount, parsedOk, wholeParsed, fragments, flushed, flushFailed>>

ingestVars ==
    <<inputVars, globalVars, table, mainVars, workerVars, monPc, historyVars,
      firstRun>>

vars == <<filterVars, ingestVars, embedVars>>

-----------------------------------------------------------------------------
(* Bounds of the model.                                                    *)

MaxStrLen == 2      \* longest title / selftext drawn for the filter
MaxScore == 2       \* scores and min_score range over -MaxScore..MaxScore
MaxMinChars == 3    \* min_num_characters ranges over 0..MaxMinChars

-----------------------------------------------------------------------------
(* Python values.                                                          *)

\* JSON null / Python None, as a field value.
None == "<None>"

\* Optional[Dict]: None is the empty sequence, a dict d is <<d>>.
NoPost == <<>>

\* dict.get(key, default)
Get(d, key, default) == IF key \in DOMAIN d THEN d[key] ELSE default

\* The dict d with d[key] = value set (inserted or overwritten).
SetItem(d, key, value) ==
    [k \in DOMAIN d \cup {key} |-> IF k = key THEN value ELSE d[k]]

\* A string of n copies of the one-character string c.
RECURSIVE Repeat(_, _)
Repeat(c, n) == IF n = 0 THEN "" ELSE c \o Repeat(c, n - 1)

-----------------------------------------------------------------------------
(* Record Filter: filter_submissions_by_content_length.                    *)

desired_attributes ==
    {"subreddit", "score", "author", "created_utc", "title", "id",
     "num_comments", "upvote_ratio", "selftext"}

\* Lines 41-44: the selftext used downstream; blanked when "media" is not None.
EffectiveSelftext(line_json) ==
    IF Get(line_json, "media", None) # None
    THEN ""
    ELSE Get(line_json, "selftext", "")

\* Line 47 with the comparison weakened to "<": a record of exactly
\* min_num_characters characters slips through.
TooShortStrict(combined_text, min_num_characters) ==
    Len(combined_text) < min_num_characters

\* Line 47: len(combined_text) <= min_num_characters
TooShort(combined_text, min_num_characters) ==
    Len(combined_text) <= min_num_characters

\* Line 52: -min_score < score < min_score
WeakEngagement(score, min_score) ==
    -min_score < score /\ score < min_score

filter_submissions_by_content_length(line_json, min_num_characters, min_score) ==
    LET selftext == EffectiveSelftext(line_json)
        combined_text == Get(line_json, "title", "") \o selftext
        score == Get(line_json, "score", 0)
        projected == [key \in desired_attributes \cap DOMAIN line_json
                        |-> line_json[key]]
    IN  IF TooShort(combined_text, min_num_characters) THEN NoPost
        ELSE IF WeakEngagement(score, min_score) THEN NoPost
        ELSE <<SetItem(projected, "selftext", selftext)>>

-----------------------------------------------------------------------------
(* The archives.  The decompressed text of an archive is a sequence of     *)
(* lines, each followed by a newline.  A line is valid JSON ("json", with  *)
(* the record it decodes to), text that is not JSON ("malformed") or bytes *)
(* that are not UTF-8 ("undecodable"); "bytes" is its length without the   *)
(* newline.  The byte stream is modelled by tokens: the newline is NL, a   *)
(* byte of line i is the token i.                                          *)

MIN_SCORE == 10
MIN_POST_LENGTH == 40

NL == 0

\* The tokens of line i (its bytes), then the newline.
LineBytes(arch, i) == [k \in 1..arch[i].bytes |-> i] \o <<NL>>

RECURSIVE StreamFrom(_, _)
StreamFrom(arch, i) ==
    IF i > Len(arch) THEN <<>> ELSE LineBytes(arch, i) \o StreamFrom(arch, i + 1)

\* The whole decompressed stream of an archive.
ByteStream(arch) == StreamFrom(arch, 1)

\* reader.read(size) at offset p: the next size bytes, fewer at the end of
\* the stream, none after it.
ReadWindow(stream, p, size) ==
    SubSeq(stream, p + 1, IF p + size < Len(stream) THEN p + size ELSE Len(stream))

\* chunk.decode("utf-8") raises UnicodeDecodeError when the chunk holds a
\* byte of an undecodable line.
Undecodable(arch, chunk) ==
    \E k \in 1..Len(chunk) : chunk[k] # NL /\ arch[chunk[k]].kind = "undecodable"

\* str.split("\n"): the pieces between newlines, empty pieces included.
RECURSIVE SplitNL(_)
SplitNL(chunk) ==
    IF \A k \in 1..Len(chunk) : chunk[k] # NL
    THEN <<chunk>>
    ELSE LET i == CHOOSE k \in 1..Len(chunk) :
                    chunk[k] = NL /\ \A j \in 1..(k - 1) : chunk[j] # NL
         IN  <<SubSeq(chunk, 1, i - 1)>> \o SplitNL(SubSeq(chunk, i + 1, Len(chunk)))

\* The archive line a piece of text is, when it is the whole of one; 0 when
\* it is empty or only part of a line.
WholeLineOf(arch, piece) ==
    IF /\ piece # <<>>
       /\ \A k \in 1..Len(piece) : piece[k] = piece[1]
       /\ Len(piece) = arch[piece[1]].bytes
    THEN piece[1]
    ELSE 0

\* json.loads(line) returns a record: the text is a whole line of valid
\* JSON.  The empty string and any proper part of a JSON object raise
\* JSONDecodeError.
JsonLoads(arch, piece) ==
    LET i == WholeLineOf(arch, piece)
    IN  IF i # 0 /\ arch[i].kind = "json" THEN <<arch[i].rec>> ELSE <<>>

-----------------------------------------------------------------------------
(* The relational sink: insert_into_db.                                    *)

expected_keys ==
    {"subreddit", "score", "author", "created_utc", "title", "id",
     "num_comments", "selftext"}

HasExpectedKeys(d) == DOMAIN d = expected_keys

TableIds(tbl) == {row.id : row \in tbl}

\* Lines 221-223: except Exception: conn.rollback(): the transaction of the
\* batch is undone, the table is as it was before the executemany.
Rollback(tbl, values) == tbl

\* What the sink does with a flush (the environment): it executes it,
\* it fails a statement on a connection that stays usable, or the connection
\* is lost (psycopg2 then marks it closed).
SinkOutcomes == {"ok", "error", "lost"}

\* The outcome of insert_into_db(conn, data_batch, table_name) on table tbl:
\* the table afterwards, whether the sink rejected the batch (the except
\* branch), and the exception that left the function, "" if none: a
\* KeyError of line 209, which is outside the try, or the InterfaceError
\* conn.rollback() raises inside the handler on a closed connection.
insert_into_db(tbl, data_batch, sink) ==
    IF data_batch = <<>>
    THEN [table |-> tbl, failed |-> FALSE, raised |-> ""]
    ELSE
    LET columns == DOMAIN data_batch[1]
        kept == SelectSeq(data_batch, HasExpectedKeys)
        keyError == kept # <<>> /\ ~(columns \subseteq expected_keys)
        values_to_insert == [k \in 1..Len(kept) |-> [col \in columns |-> kept[k][col]]]
        newIds == {values_to_insert[k].id : k \in 1..Len(kept)}
        rejected ==
            \/ sink = "error"
            \/ /\ kept # <<>>
               /\ \/ "id" \notin columns                            \* NULL primary key
                  \/ Cardinality(newIds) # Len(kept)                \* duplicate in the batch
                  \/ newIds \cap TableIds(tbl) # {}                 \* duplicate in the table
    IN  IF keyError THEN [table |-> tbl, failed |-> FALSE, raised |-> "KeyError"]
        ELSE IF sink = "lost"
        THEN [table |-> tbl, failed |-> TRUE, raised |-> "InterfaceError"]
        ELSE IF rejected
        THEN [table |-> Rollback(tbl, values_to_insert), failed |-> TRUE,
              raised |-> ""]
        ELSE [table |-> tbl \cup {values_to_insert[k] : k \in 1..Len(kept)},
              failed |-> FALSE, raised |-> ""]

-----------------------------------------------------------------------------
(* Threads and the lock.                                                   *)

ArchiveNames == {"a.zst", "b.zst"}

\* file_name.endswith(".zst")
IsArchive(file_name) == file_name \in ArchiveNames

NoThread == "none"
Monitor == "monitor"

Finished(w) == wpc[w] \in {"done", "crashed"}
Started(w) == wpc[w] # "idle"
Running(w) == Started(w) /\ ~Finished(w)

\* row_count_lock.acquire() returns: nobody holds the lock.
CanAcquire == lockHolder = NoThread

-----------------------------------------------------------------------------
(* Archive Ingestion Worker: add_compressed_file_to_db, one thread per     *)
(* archive w.  Steps that touch only the thread's locals are merged; every *)
(* step that touches the sink, the lock or a global counter is its own.    *)

WindowBytes == 4    \* the read window, reader.read(2**27), at model scale

\* The thread ends with an exception.
Crash(w, exception) ==
    /\ wpc' = [wpc EXCEPT ![w] = "crashed"]
    /\ failure' = [failure EXCEPT ![w] = exception]

\* Line 118: psycopg2.connect(**db_config); the sink may be unreachable.
Connect(w) ==
    /\ wpc[w] = "connect"
    /\ \E ok \in BOOLEAN :
          IF ok THEN wpc' = [wpc EXCEPT ![w] = "open"] /\ UNCHANGED failure
          ELSE Crash(w, "OperationalError")
    /\ UNCHANGED <<filterVars, embedVars, inputVars, firstRun, globalVars, table, mainVars, monPc,
                   historyVars, pos, data, rows_buffer, discarded_rows_local,
                   local_row_count, loaded, report>>

\* Line 122: open(file_path, "rb"); the archive may be unreadable.
OpenArchive(w) ==
    /\ wpc[w] = "open"
    /\ \E ok \in BOOLEAN :
          IF ok THEN wpc' = [wpc EXCEPT ![w] = "loop"] /\ UNCHANGED failure
          ELSE Crash(w, "OSError")
    /\ UNCHANGED <<filterVars, embedVars, inputVars, firstRun, globalVars, table, mainVars, monPc,
                   historyVars, pos, data, rows_buffer, discarded_rows_local,
                   local_row_count, loaded, report>>

\* Lines 128-135: read the next window; stop at the end of the stream; skip
\* a window that does not decode; otherwise split it at the newlines.
ReadChunk(w) ==
    /\ wpc[w] = "loop"
    /\ data[w] = <<>>
    /\ LET chunk == ReadWindow(ByteStream(archive[w]), pos[w], WindowBytes)
       IN  IF chunk = <<>>
           THEN /\ wpc' = [wpc EXCEPT ![w] = "final"]
                /\ UNCHANGED <<pos, data>>
           ELSE /\ pos' = [pos EXCEPT ![w] = @ + Len(chunk)]
                /\ data' = [data EXCEPT ![w] =
                               IF Undecodable(archive[w], chunk) THEN <<>>
                               ELSE SplitNL(chunk)]
                /\ UNCHANGED wpc
    /\ UNCHANGED <<filterVars, embedVars, inputVars, firstRun, globalVars, table, mainVars, monPc,
                   historyVars, rows_buffer, discarded_rows_local,
                   local_row_count, loaded, report, failure>>

\* A test that lets the buffer grow one past the batch size.
BatchOverfull(buffer, size) == Len(buffer) > size

\* Line 144: len(rows_buffer) >= batch_size
BatchFull(buffer, size) == Len(buffer) >= size

\* Lines 137-157, one iteration of "for line in data" up to the flush:
\* json.loads, the filter, the append to rows_buffer or the discard count.
ProcessLine(w) ==
    /\ wpc[w] = "loop"
    /\ data[w] # <<>>
    /\ LET line == Head(data[w])
           whole == WholeLineOf(archive[w], line)
           line_json == JsonLoads(archive[w], line)
           filtered_rows ==
               IF line_json = <<>> THEN NoPost
               ELSE filter_submissions_by_content_length(
                        line_json[1], MIN_POST_LENGTH, MIN_SCORE)
       IN  /\ data' = [data EXCEPT ![w] = Tail(@)]
           /\ wholeParsed' = [wholeParsed EXCEPT ![w] =
                                 IF whole # 0 THEN Append(@, whole) ELSE @]
           /\ fragments' = [fragments EXCEPT ![w] =
                               IF whole = 0 /\ line # <<>> THEN @ + 1 ELSE @]
           /\ parsedOk' = [parsedOk EXCEPT ![w] =
                              IF line_json # <<>> THEN @ + 1 ELSE @]
           /\ IF line_json = <<>>
              THEN \* except json.JSONDecodeError: continue
                   UNCHANGED <<rows_buffer, discarded_rows_local, wpc>>
              ELSE IF filtered_rows # NoPost
              THEN /\ rows_buffer' = [rows_buffer EXCEPT ![w] =
                                         Append(@, filtered_rows[1])]
                   /\ wpc' = [wpc EXCEPT ![w] =
                                 IF BatchFull(rows_buffer'[w], batch_size)
                                 THEN "flush" ELSE "loop"]
                   /\ UNCHANGED discarded_rows_local
              ELSE /\ discarded_rows_local' =
                          [discarded_rows_local EXCEPT ![w] = @ + 1]
                   /\ UNCHANGED <<rows_buffer, wpc>>
    /\ UNCHANGED <<filterVars, embedVars, inputVars, firstRun, globalVars, table, mainVars, monPc,
                   setupCount, flushed, flushFailed, pos, local_row_count,
                   loaded, report, failure>>

\* A call of insert_into_db with the worker's buffer: the sink's outcome
\* and the history of flushes.  next(w) is where a returning call continues.
CallInsert(w, next) ==
    \E sink \in SinkOutcomes :
        LET out == insert_into_db(table, rows_buffer[w], sink)
        IN  /\ table' = out.table
            /\ flushed' = [flushed EXCEPT ![w] = Append(@, rows_buffer[w])]
            /\ flushFailed' = [flushFailed EXCEPT ![w] =
                                  IF out.failed THEN @ + 1 ELSE @]
            /\ IF out.raised # ""
               THEN Crash(w, out.raised)
               ELSE wpc' = [wpc EXCEPT ![w] = next] /\ UNCHANGED failure

\* Lines 147-148: the batch is full; flush it and clear it.
FlushBatch(w) ==
    /\ wpc[w] = "flush"
    /\ CallInsert(w, "count")
    /\ rows_buffer' = [rows_buffer EXCEPT ![w] =
                          IF wpc'[w] = "crashed" THEN @ ELSE <<>>]
    /\ UNCHANGED <<filterVars, embedVars, inputVars, firstRun, globalVars, mainVars, monPc,
                   setupCount, parsedOk, wholeParsed, fragments, pos, data,
                   discarded_rows_local, local_row_count, loaded, report>>

\* Lines 149-151: with row_count_lock, the read of "row_count += batch_size".
CountLoad(w) ==
    /\ wpc[w] = "count"
    /\ CanAcquire
    /\ lockHolder' = w
    /\ loaded' = [loaded EXCEPT ![w] = row_count]
    /\ wpc' = [wpc EXCEPT ![w] = "store"]
    /\ UNCHANGED <<filterVars, embedVars, inputVars, firstRun, row_count, discarded_rows,
                   stop_monitor, table, mainVars, monPc, historyVars, pos, data,
                   rows_buffer, discarded_rows_local, local_row_count, report,
                   failure>>

\* Lines 151-152: the write of "row_count += batch_size", the local count,
\* and the release of the lock.
CountStore(w) ==
    /\ wpc[w] = "store"
    /\ row_count' = loaded[w] + batch_size
    /\ local_row_count' = [local_row_count EXCEPT ![w] = @ + batch_size]
    /\ lockHolder' = NoThread
    /\ wpc' = [wpc EXCEPT ![w] = "loop"]
    /\ UNCHANGED <<filterVars, embedVars, inputVars, firstRun, discarded_rows, stop_monitor, table,
                   mainVars, monPc, historyVars, pos, data, rows_buffer,
                   discarded_rows_local, loaded, report, failure>>

\* Lines 160-161: after the stream ends, insert what is left in the buffer.
FinalFlush(w) ==
    /\ wpc[w] = "final"
    /\ IF rows_buffer[w] # <<>>
       THEN CallInsert(w, "dlock")
       ELSE /\ wpc' = [wpc EXCEPT ![w] = "dlock"]
            /\ UNCHANGED <<table, flushed, flushFailed, failure>>
    /\ UNCHANGED <<filterVars, embedVars, inputVars, firstRun, globalVars, mainVars, monPc,
                   setupCount, parsedOk, wholeParsed, fragments, pos, data,
                   rows_buffer, discarded_rows_local, local_row_count, loaded,
                   report>>

\* Lines 163-165: with row_count_lock, the read of "discarded_rows += ...".
DiscardLoad(w) ==
    /\ wpc[w] = "dlock"
    /\ CanAcquire
    /\ lockHolder' = w
    /\ loaded' = [loaded EXCEPT ![w] = discarded_rows]
    /\ wpc' = [wpc EXCEPT ![w] = "dstore"]
    /\ UNCHANGED <<filterVars, embedVars, inputVars, firstRun, row_count, discarded_rows,
                   stop_monitor, table, mainVars, monPc, historyVars, pos, data,
                   rows_buffer, discarded_rows_local, local_row_count, report,
                   failure>>

\* Line 165: the write of "discarded_rows += discarded_rows_local" and the
\* release of the lock.
DiscardStore(w) ==
    /\ wpc[w] = "dstore"
    /\ discarded_rows' = loaded[w] + discarded_rows_local[w]
    /\ lockHolder' = NoThread
    /\ wpc' = [wpc EXCEPT ![w] = "report"]
    /\ UNCHANGED <<filterVars, embedVars, inputVars, firstRun, row_count, stop_monitor, table,
                   mainVars, monPc, historyVars, pos, data, rows_buffer,
                   discarded_rows_local, local_row_count, loaded, report,
                   failure>>

\* Lines 167-169: the end-of-file log line.  It reads the GLOBAL
\* discarded_rows, without the lock, and divides by
\* local_row_count + discarded_rows: ZeroDivisionError when that is 0.
WorkerReport(w) ==
    /\ wpc[w] = "report"
    /\ IF local_row_count[w] + discarded_rows = 0
       THEN Crash(w, "ZeroDivisionError") /\ UNCHANGED report
       ELSE /\ report' = [report EXCEPT ![w] =
                             <<[added |-> local_row_count[w],
                                discarded |-> discarded_rows,
                                total |-> local_row_count[w] + discarded_rows]>>]
            /\ wpc' = [wpc EXCEPT ![w] = "done"]
            /\ UNCHANGED failure
    /\ UNCHANGED <<filterVars, embedVars, inputVars, firstRun, globalVars, table, mainVars, monPc,
                   historyVars, pos, data, rows_buffer, discarded_rows_local,
                   local_row_count, loaded>>

-----------------------------------------------------------------------------
(* Progress monitor: monitor_rows.                                         *)

\* Line 175: the test of "while not stop_monitor".
MonitorCheck ==
    /\ monPc = "check"
    /\ monPc' = IF stop_monitor THEN "done" ELSE "acquire"
    /\ UNCHANGED <<filterVars, embedVars, inputVars, firstRun, globalVars, table, mainVars,
                   workerVars, historyVars>>

\* Line 176: with row_count_lock.
MonitorAcquire ==
    /\ monPc = "acquire"
    /\ CanAcquire
    /\ lockHolder' = Monitor
    /\ monPc' = "print"
    /\ UNCHANGED <<filterVars, embedVars, inputVars, firstRun, row_count, discarded_rows,
                   stop_monitor, table, mainVars, workerVars, historyVars>>

\* Lines 177-178: print row_count, release the lock, sleep one second.
MonitorPrint ==
    /\ monPc = "print"
    /\ lockHolder' = NoThread
    /\ monPc' = "check"
    /\ UNCHANGED <<filterVars, embedVars, inputVars, firstRun, row_count, discarded_rows,
                   stop_monitor, table, mainVars, workerVars, historyVars>>

-----------------------------------------------------------------------------
(* Ingestion Coordinator: main_load_files_in_db.                           *)

\* The statements of main in a wrong order: the table is set up after the
\* worker threads were started.
MainOrderSetupLate ==
    <<"spawn", "setup", "join", "stop", "joinmon", "summary", "done">>

\* The statements of main in program order: set up the table (243), loop
\* over the directory and start the monitor (245-261), join the workers
\* (263-264), set the stop flag (266), join the monitor (267), log (268).
MainOrder ==
    <<"setup", "spawn", "join", "stop", "joinmon", "summary", "done">>

\* The statement that follows statement pc.
After(pc) ==
    MainOrder[(CHOOSE k \in 1..Len(MainOrder) : MainOrder[k] = pc) + 1]

\* Line 243: setup_database_create_table: DROP TABLE IF EXISTS, CREATE TABLE.
SetupDatabase ==
    /\ mainPc = "setup"
    /\ table' = {}
    /\ setupCount' = setupCount + 1
    /\ mainPc' = After("setup")
    /\ UNCHANGED <<filterVars, embedVars, inputVars, firstRun, globalVars, idx, threads, summary,
                   workerVars, monPc, parsedOk, wholeParsed, fragments, flushed,
                   flushFailed>>

\* Lines 247-258, an entry that ends in ".zst": start its worker thread.
StartWorker ==
    /\ mainPc = "spawn"
    /\ idx < Len(listing)
    /\ IsArchive(listing[idx + 1])
    /\ wpc' = [wpc EXCEPT ![listing[idx + 1]] = "connect"]
    /\ threads' = Append(threads, listing[idx + 1])
    /\ idx' = idx + 1
    /\ UNCHANGED <<filterVars, embedVars, inputVars, firstRun, globalVars, table, mainPc, summary,
                   monPc, historyVars, pos, data, rows_buffer,
                   discarded_rows_local, local_row_count, loaded, report,
                   failure>>

\* Lines 247-248, any other entry: skipped.
SkipEntry ==
    /\ mainPc = "spawn"
    /\ idx < Len(listing)
    /\ ~IsArchive(listing[idx + 1])
    /\ idx' = idx + 1
    /\ UNCHANGED <<filterVars, embedVars, inputVars, firstRun, globalVars, table, mainPc, threads,
                   summary, workerVars, monPc, historyVars>>

\* Lines 260-261: after the loop, start the monitor thread.
StartMonitor ==
    /\ mainPc = "spawn"
    /\ idx = Len(listing)
    /\ monPc' = "check"
    /\ mainPc' = After("spawn")
    /\ UNCHANGED <<filterVars, embedVars, inputVars, firstRun, globalVars, table, idx, threads,
                   summary, workerVars, historyVars>>

\* Lines 263-264: thread.join() for every worker; a join returns when the
\* thread has ended, normally or with an exception.
JoinWorkers ==
    /\ mainPc = "join"
    /\ \A k \in 1..Len(threads) : Finished(threads[k])
    /\ mainPc' = After("join")
    /\ UNCHANGED <<filterVars, embedVars, inputVars, firstRun, globalVars, table, idx, threads,
                   summary, workerVars, monPc, historyVars>>

\* Line 266: stop_monitor = True
SignalStop ==
    /\ mainPc = "stop"
    /\ stop_monitor' = TRUE
    /\ mainPc' = After("stop")
    /\ UNCHANGED <<filterVars, embedVars, inputVars, firstRun, row_count, discarded_rows, lockHolder,
                   table, idx, threads, summary, workerVars, monPc, historyVars>>

\* A join that returns without waiting for the thread to end.
JoinedAtOnce(pc) == TRUE

\* Line 267: Thread.join returns once the thread's function has returned.
Joined(pc) == pc = "done"

\* Line 267: monitor_thread.join()
JoinMonitor ==
    /\ mainPc = "joinmon"
    /\ Joined(monPc)
    /\ mainPc' = After("joinmon")
    /\ UNCHANGED <<filterVars, embedVars, inputVars, firstRun, globalVars, table, idx, threads,
                   summary, workerVars, monPc, historyVars>>

\* Lines 268-270: the final log line: rows written, rows discarded and
\* discarded_rows / (row_count + discarded_rows); ZeroDivisionError when
\* both counters are 0.
FinalSummary ==
    /\ mainPc = "summary"
    /\ IF row_count + discarded_rows = 0
       THEN mainPc' = "crashed" /\ UNCHANGED summary
       ELSE /\ summary' = <<[rows_written |-> row_count,
                             rows_discarded |-> discarded_rows,
                             total |-> row_count + discarded_rows]>>
            /\ mainPc' = After("summary")
    /\ UNCHANGED <<filterVars, embedVars, inputVars, firstRun, globalVars, table, idx, threads,
                   workerVars, monPc, historyVars>>

-----------------------------------------------------------------------------
(* The embedding stage: fetch_data_in_batches, prepare_texts_and_ids,      *)
(* generate_embeddings, initialize_h5_file, append_ids_embeddings_to_h5    *)
(* and the loop of create_and_save_embeddings.  A text is stood for by the *)
(* id of its row, and so is the vector the model computes for it.          *)

H5Path == "reddit_data.h5"

\* The fill value of a dataset grown by resize: a zero row, an empty string.
Fill == ""

\* s grown to n entries, the new ones filled.
Pad(s, n) == s \o [i \in 1..(n - Len(s)) |-> Fill]

\* A write that starts at the beginning of the dataset instead of at
\* current_size: s[0:len(values)] = values.
WriteFromStart(s, current, values) ==
    [i \in 1..Len(s) |-> IF i <= Len(values) THEN values[i] ELSE s[i]]

\* s with s[current:current+len(values)] = values.
WriteSlice(s, current, values) ==
    [i \in 1..Len(s) |->
        IF i > current /\ i <= current + Len(values) THEN values[i - current]
        ELSE s[i]]

\* Lines 44-55, prepare_texts_and_ids: the rows langid classifies as 'en'.
IsEnglish(row) == row.lang = "en"
prepare_ids(batch) ==
    LET kept == SelectSeq(batch, IsEnglish)
    IN  [i \in 1..Len(kept) |-> kept[i].id]

\* Line 137: "texts is not None"; prepare_texts_and_ids returns a list,
\* which is never None.
TextsPresent(t) == TRUE

\* The run ends with an exception.
Abort(exception) ==
    /\ epc' = "crashed"
    /\ eFailure' = exception

\* A fetch that returns one row more than asked for.
fetchmany_one_more(result, position, size) ==
    SubSeq(result, position + 1,
           IF position + size + 1 < Len(result)
           THEN position + size + 1 ELSE Len(result))

\* Line 97, con.fetchmany(batch_size): the next rows of the result, at most
\* size of them, none when the cursor is at the end.
fetchmany(result, position, size) ==
    SubSeq(result, position + 1,
           IF position + size < Len(result) THEN position + size ELSE Len(result))

\* Lines 134-137 and 96-100: fetchmany(batch_size); an empty batch ends the
\* generator and the loop; otherwise the texts and ids are prepared.
FetchPage ==
    /\ epc = "fetch"
    /\ LET batch == fetchmany(rows, fetched, page_size)
       IN  IF batch = <<>>
           THEN /\ epc' = "final"
                /\ UNCHANGED <<fetched, texts, batch_ids, pages>>
           ELSE /\ fetched' = fetched + Len(batch)
                /\ pages' = Append(pages, batch)
                /\ texts' = prepare_ids(batch)
                /\ batch_ids' = prepare_ids(batch)
                /\ epc' = IF TextsPresent(texts') THEN "encode" ELSE "fetch"
    /\ UNCHANGED <<filterVars, ingestVars, embedInputs, embeddings, h5_file,
                   total_processed, new_size, eFailure, store, generateCalls,
                   firstDim, creates, appends>>

\* A test that takes the store for missing on every page.
StoreAlwaysMissing == TRUE

\* Line 140: h5_file is None
StoreMissing == h5_file = None

\* Lines 138 and 58-68: model.encode(texts): an N x D array for N > 0
\* texts.  For an empty list the library either raises or returns an empty
\* one-dimensional array, depending on its version.
GenerateEmbeddings ==
    /\ epc = "encode"
    /\ generateCalls' = Append(generateCalls, Len(texts))
    /\ IF texts # <<>>
       THEN /\ embeddings' = [ndim |-> 2, rows |-> texts, width |-> modelDim]
            /\ firstDim' = IF firstDim = 0 THEN modelDim ELSE firstDim
            /\ epc' = IF StoreMissing THEN "init" ELSE "append"
            /\ UNCHANGED eFailure
       ELSE \E raises \in BOOLEAN :
               IF raises
               THEN Abort("RuntimeError") /\ UNCHANGED <<embeddings, firstDim>>
               ELSE /\ embeddings' = [ndim |-> 1, rows |-> <<>>, width |-> 0]
                    /\ epc' = IF StoreMissing THEN "init" ELSE "append"
                    /\ UNCHANGED <<eFailure, firstDim>>
    /\ UNCHANGED <<filterVars, ingestVars, embedInputs, fetched, texts,
                   batch_ids, h5_file, total_processed, new_size, store,
                   creates, appends, pages>>

\* The width handed to initialize_h5_file taken from the wrong axis:
\* embeddings.shape[0], the number of rows.
FirstAxis(emb) == Len(emb.rows)

\* Line 141: embeddings.shape[1]
SecondAxis(emb) == emb.width

\* Lines 140-141 and 118-123: initialize_h5_file(path, embeddings.shape[1]):
\* the file is opened with "w" (an existing file is truncated) and holds two
\* empty datasets.  shape[1] of a one-dimensional array is an IndexError.
InitializeStore ==
    /\ epc = "init"
    /\ IF embeddings.ndim < 2
       THEN Abort("IndexError") /\ UNCHANGED <<store, h5_file, creates>>
       ELSE /\ store' = <<[dim |-> SecondAxis(embeddings), vectors |-> <<>>,
                           ids |-> <<>>]>>
            /\ h5_file' = H5Path
            /\ creates' = creates + 1
            /\ epc' = "append"
            /\ UNCHANGED eFailure
    /\ UNCHANGED <<filterVars, ingestVars, embedInputs, fetched, texts,
                   batch_ids, embeddings, total_processed, new_size,
                   generateCalls, firstDim, appends, pages>>

\* Lines 104-111: open the file, compute the sizes, embed_dset.resize.
\* Every step on the file may fail (ok = FALSE: an I/O error).
AppendResizeEmbeddings ==
    /\ epc = "append"
    /\ new_size' = Len(store[1].vectors) + Len(embeddings.rows)
    /\ \E ok \in BOOLEAN :
          IF ok
          THEN /\ store' = <<[store[1] EXCEPT !.vectors = Pad(@, new_size')]>>
               /\ epc' = "write_embeddings"
               /\ UNCHANGED eFailure
          ELSE Abort("OSError") /\ UNCHANGED store
    /\ UNCHANGED <<filterVars, ingestVars, embedInputs, fetched, texts,
                   batch_ids, embeddings, h5_file, total_processed,
                   embedHistory>>

\* The array fits the selection embed_dset[current_size:new_size]: it has
\* that many rows, of the dataset's width or of width 1, which h5py
\* broadcasts along the axis.  (Whether h5py accepts an empty
\* one-dimensional array for an empty selection is left to the library.)
EmbeddingsFit(emb, dim) == emb.ndim = 2 => emb.width \in {dim, 1}

\* The list fits the selection ids_dset[current_size:new_size]: it has
\* that many entries, or a single one, which h5py broadcasts.
IdsFit(ids, n) == Len(ids) \in {n, 1}

\* The values as h5py writes them to a selection of n entries.
Broadcast(values, n) ==
    IF Len(values) = n THEN values ELSE [i \in 1..n |-> values[1]]

\* Line 112: embed_dset[current_size:new_size] = embeddings
AppendWriteEmbeddings ==
    /\ epc = "write_embeddings"
    /\ \E ok \in BOOLEAN :
          IF ok /\ EmbeddingsFit(embeddings, store[1].dim)
          THEN /\ store' = <<[store[1] EXCEPT !.vectors =
                                WriteSlice(@, new_size - Len(embeddings.rows),
                                           embeddings.rows)]>>
               /\ epc' = "resize_ids"
               /\ UNCHANGED eFailure
          ELSE Abort(IF ok THEN "TypeError" ELSE "OSError") /\ UNCHANGED store
    /\ UNCHANGED <<filterVars, ingestVars, embedInputs, fetched, texts,
                   batch_ids, embeddings, h5_file, total_processed, new_size,
                   embedHistory>>

\* Line 114: ids_dset.resize((new_size,))
AppendResizeIds ==
    /\ epc = "resize_ids"
    /\ \E ok \in BOOLEAN :
          IF ok
          THEN /\ store' = <<[store[1] EXCEPT !.ids = Pad(@, new_size)]>>
               /\ epc' = "write_ids"
               /\ UNCHANGED eFailure
          ELSE Abort("OSError") /\ UNCHANGED store
    /\ UNCHANGED <<filterVars, ingestVars, embedInputs, fetched, texts,
                   batch_ids, embeddings, h5_file, total_processed, new_size,
                   embedHistory>>

\* Line 115: ids_dset[current_size:new_size] = ids, then the file is closed.
AppendWriteIds ==
    /\ epc = "write_ids"
    /\ \E ok \in BOOLEAN :
          IF ok /\ IdsFit(batch_ids, Len(embeddings.rows))
          THEN /\ store' = <<[store[1] EXCEPT !.ids =
                                WriteSlice(@, new_size - Len(embeddings.rows),
                                           Broadcast(batch_ids,
                                                     Len(embeddings.rows)))]>>
               /\ appends' = appends + 1
               /\ epc' = "count"
               /\ UNCHANGED eFailure
          ELSE /\ Abort(IF ok THEN "TypeError" ELSE "OSError")
               /\ UNCHANGED <<store, appends>>
    /\ UNCHANGED <<filterVars, ingestVars, embedInputs, fetched, texts,
                   batch_ids, embeddings, h5_file, total_processed, new_size,
                   generateCalls, firstDim, creates, pages>>

\* Lines 144-146: total_processed += len(batch_ids); next page.
CountProcessed ==
    /\ epc = "count"
    /\ total_processed' = total_processed + Len(batch_ids)
    /\ epc' = "fetch"
    /\ UNCHANGED <<filterVars, ingestVars, embedInputs, fetched, texts,
                   batch_ids, embeddings, h5_file, new_size, eFailure, store,
                   embedHistory>>

\* Lines 148-153: the closing log lines; the file is opened for reading and
\* must exist.
FinalShapes ==
    /\ epc = "final"
    /\ IF store = <<>> THEN Abort("FileNotFoundError")
       ELSE epc' = "done" /\ UNCHANGED eFailure
    /\ UNCHANGED <<filterVars, ingestVars, embedInputs, fetched, texts,
                   batch_ids, embeddings, h5_file, total_processed, new_size,
                   store, embedHistory>>

-----------------------------------------------------------------------------
(* Inputs of the model.                                                    *)

\* All sequences over S of length at most n.
SeqsUpTo(S, n) == UNION {[1..k -> S] : k \in 0..n}

\* A raw submission as the archives hold it: the sink's columns and a null
\* "media".
Submission(id, score, textLen) ==
    [subreddit |-> "r", score |-> score, author |-> "u", created_utc |-> 0,
     title |-> Repeat("t", textLen), id |-> id, num_comments |-> 0,
     selftext |-> "", media |-> None]

JsonLine(rec, n) == [kind |-> "json", rec |-> rec, bytes |-> n]
TextLine(kind, n) == [kind |-> kind, rec |-> [id |-> "-"], bytes |-> n]

\* Submissions that pass the filter and one with a weak score (the scores
\* and lengths are those of the configured thresholds).
Kept(id) == Submission(id, 2 * MIN_SCORE, MIN_POST_LENGTH + 10)
KeptNegative(id) == Submission(id, -MIN_SCORE, MIN_POST_LENGTH + 1)
WeakScore(id) == Submission(id, MIN_SCORE - 1, MIN_POST_LENGTH + 10)

Digits == <<"1", "2", "3", "4", "5", "6", "7", "8", "9">>

\* An archive of m submissions that pass the filter followed by r that do
\* not, one byte a line, with ids no other archive uses.
UniformArchive(w, m, r) ==
    [i \in 1..(m + r) |->
        JsonLine(IF i <= m THEN Kept(w \o "#" \o Digits[i])
                 ELSE WeakScore(w \o "#" \o Digits[i]), 1)]

UniformArchives(w, n) ==
    UNION {{UniformArchive(w, m, r) : r \in 0..(n - m)} : m \in 0..n}

\* A submission of a newer dump: it carries "upvote_ratio" as well.
WithRatio(id) == SetItem(Kept(id), "upvote_ratio", 1)

\* The lines of an arbitrary archive: submissions that pass the filter (two
\* ids, so that an id may repeat), one that carries upvote_ratio, one that
\* the filter rejects, text that is not JSON and bytes that are not UTF-8.
ArchiveLines(n) ==
    {JsonLine(rec, n) :
        rec \in {Kept("p1"), KeptNegative("p2"), WithRatio("p3"), WeakScore("p4")}}
    \cup {TextLine(kind, n) : kind \in {"malformed", "undecodable"}}

\* The archives of up to maxLines such lines, all lines of an archive of
\* the same number of bytes, 1..maxBytes.
Archives(maxLines, maxBytes) ==
    UNION {SeqsUpTo(ArchiveLines(n), maxLines) : n \in 1..maxBytes}

DirOrder == <<"a.zst", "notes.txt", "b.zst">>

\* The directory listings: the prefixes of DirOrder.
Listings == {SubSeq(DirOrder, 1, n) : n \in 0..Len(DirOrder)}

Listed(list, name) == \E k \in 1..Len(list) : list[k] = name

\* A table left by an earlier run.
StaleRow == [col \in expected_keys |-> Submission("p1", 2 * MIN_SCORE, 1)[col]]

FilterIdle ==
    /\ fpc = "idle"
    /\ fRecord = [id |-> "p1"]
    /\ fMinChars = 0
    /\ fMinScore = 0
    /\ fResult = NoPost

\* The module's globals after import and the threads before main starts.
IngestStart ==
    /\ row_count = 0
    /\ discarded_rows = 0
    /\ lockHolder = NoThread
    /\ stop_monitor = FALSE
    /\ mainPc = MainOrder[1]
    /\ idx = 0
    /\ threads = <<>>
    /\ summary = <<>>
    /\ wpc = [w \in ArchiveNames |-> "idle"]
    /\ pos = [w \in ArchiveNames |-> 0]
    /\ data = [w \in ArchiveNames |-> <<>>]
    /\ rows_buffer = [w \in ArchiveNames |-> <<>>]
    /\ discarded_rows_local = [w \in ArchiveNames |-> 0]
    /\ local_row_count = [w \in ArchiveNames |-> 0]
    /\ loaded = [w \in ArchiveNames |-> 0]
    /\ report = [w \in ArchiveNames |-> <<>>]
    /\ failure = [w \in ArchiveNames |-> ""]
    /\ monPc = "idle"
    /\ setupCount = 0
    /\ parsedOk = [w \in ArchiveNames |-> 0]
    /\ wholeParsed = [w \in ArchiveNames |-> <<>>]
    /\ fragments = [w \in ArchiveNames |-> 0]
    /\ flushed = [w \in ArchiveNames |-> <<>>]
    /\ flushFailed = [w \in ArchiveNames |-> 0]
    /\ firstRun = <<>>

\* The embedding run before its first statement.
EmbedStart ==
    /\ fetched = 0
    /\ texts = <<>>
    /\ batch_ids = <<>>
    /\ embeddings = [ndim |-> 1, rows |-> <<>>, width |-> 0]
    /\ h5_file = None
    /\ total_processed = 0
    /\ new_size = 0
    /\ eFailure = ""
    /\ generateCalls = <<>>
    /\ firstDim = 0
    /\ creates = 0
    /\ appends = 0
    /\ pages = <<>>

EmbedIdle ==
    /\ rows = <<>>
    /\ page_size = 1
    /\ modelDim = 1
    /\ epc = "idle"
    /\ store = <<>>
    /\ EmbedStart

IngestIdle ==
    /\ listing = <<>>
    /\ archive = [w \in ArchiveNames |-> <<>>]
    /\ batch_size = 1
    /\ table = {}
    /\ IngestStart

WorkerStep(w) ==
    \/ Connect(w)
    \/ OpenArchive(w)
    \/ ReadChunk(w)
    \/ ProcessLine(w)
    \/ FlushBatch(w)
    \/ CountLoad(w)
    \/ CountStore(w)
    \/ FinalFlush(w)
    \/ DiscardLoad(w)
    \/ DiscardStore(w)
    \/ WorkerReport(w)

MonitorStep == MonitorCheck \/ MonitorAcquire \/ MonitorPrint

MainStep ==
    \/ SetupDatabase
    \/ StartWorker
    \/ SkipEntry
    \/ StartMonitor
    \/ JoinWorkers
    \/ SignalStop
    \/ JoinMonitor
    \/ FinalSummary

-----------------------------------------------------------------------------
(* Spec: one run of the ingestion coordinator over a directory of up to    *)
(* two archives, the workers, the monitor and the coordinator interleaved  *)
(* step by step.  Every archive holds up to MaxLines submissions, those    *)
(* that pass the filter first; the table holds a row of an earlier run.    *)

MaxLines == 2       \* lines per archive in Spec
MaxBatchSize == 2   \* batch_size ranges over 1..MaxBatchSize

Init ==
    /\ FilterIdle
    /\ EmbedIdle
    /\ listing \in Listings
    /\ archive \in [ArchiveNames ->
                      UNION {UniformArchives(w, MaxLines) : w \in ArchiveNames}]
    /\ \A w \in ArchiveNames :
          /\ archive[w] \in UniformArchives(w, MaxLines)
          /\ ~Listed(listing, w) => archive[w] = <<>>
    /\ batch_size \in 1..MaxBatchSize
    /\ table = {StaleRow}
    /\ IngestStart

Next == MainStep \/ MonitorStep \/ \E w \in ArchiveNames : WorkerStep(w)

Spec == Init /\ [][Next]_vars

-----------------------------------------------------------------------------
(* LiveSpec: the same run over archives of up to MaxLiveLines lines, with  *)
(* the fairness the monitor's termination rests on: the scheduler runs the *)
(* monitor thread whenever it can take a step.                             *)

MaxLiveLines == 1

InitLive ==
    /\ Init
    /\ \A w \in ArchiveNames : Len(archive[w]) <= MaxLiveLines

LiveSpec == InitLive /\ [][Next]_vars /\ WF_vars(MonitorStep)

-----------------------------------------------------------------------------
(* SpecRerun: the coordinator run twice over the same directory, archives  *)
(* of up to MaxRerunLines lines.  The second run is a second call of       *)
(* main_load_files_in_db in the process of the first, where the module     *)
(* globals of lines 28-31 keep their values, or a run of a new process,    *)
(* where the import of the module initialises them again.                  *)

MaxRerunLines == 1

\* No worker of the run ended with an exception and no flush was rejected.
CleanRun ==
    \A w \in ArchiveNames : failure[w] = "" /\ flushFailed[w] = 0

\* The first run has returned; the second begins.
Rerun ==
    /\ mainPc = "done"
    /\ firstRun = <<>>
    /\ firstRun' = <<[rows |-> Cardinality(table), summary |-> summary[1],
                      clean |-> CleanRun]>>
    /\ \E sameProcess \in BOOLEAN :
          IF sameProcess
          THEN UNCHANGED <<row_count, discarded_rows, stop_monitor>>
          ELSE row_count' = 0 /\ discarded_rows' = 0 /\ stop_monitor' = FALSE
    /\ mainPc' = MainOrder[1]
    /\ idx' = 0
    /\ threads' = <<>>
    /\ summary' = <<>>
    /\ wpc' = [w \in ArchiveNames |-> "idle"]
    /\ pos' = [w \in ArchiveNames |-> 0]
    /\ data' = [w \in ArchiveNames |-> <<>>]
    /\ rows_buffer' = [w \in ArchiveNames |-> <<>>]
    /\ discarded_rows_local' = [w \in ArchiveNames |-> 0]
    /\ local_row_count' = [w \in ArchiveNames |-> 0]
    /\ loaded' = [w \in ArchiveNames |-> 0]
    /\ report' = [w \in ArchiveNames |-> <<>>]
    /\ failure' = [w \in ArchiveNames |-> ""]
    /\ monPc' = "idle"
    /\ setupCount' = 0
    /\ parsedOk' = [w \in ArchiveNames |-> 0]
    /\ wholeParsed' = [w \in ArchiveNames |-> <<>>]
    /\ fragments' = [w \in ArchiveNames |-> 0]
    /\ flushed' = [w \in ArchiveNames |-> <<>>]
    /\ flushFailed' = [w \in ArchiveNames |-> 0]
    /\ UNCHANGED <<filterVars, embedVars, inputVars, lockHolder, table>>

InitRerun ==
    /\ Init
    /\ \A w \in ArchiveNames : Len(archive[w]) <= MaxRerunLines

NextRerun == Next \/ Rerun

SpecRerun == InitRerun /\ [][NextRerun]_vars

-----------------------------------------------------------------------------
(* SpecArchive: one run over a directory that holds a single archive of    *)
(* up to MaxArchiveLines arbitrary lines of up to MaxLineBytes bytes each. *)

MaxArchiveLines == 3
MaxLineBytes == 2

InitArchive ==
    /\ FilterIdle
    /\ EmbedIdle
    /\ listing = <<"a.zst">>
    /\ archive \in [ArchiveNames -> Archives(MaxArchiveLines, MaxLineBytes)]
    /\ archive["b.zst"] = <<>>
    /\ batch_size \in 1..MaxBatchSize
    /\ table = {StaleRow}
    /\ IngestStart

\* The steps of a run with one archive: no entry is skipped.
NextArchive ==
    \/ SetupDatabase
    \/ StartWorker
    \/ StartMonitor
    \/ JoinWorkers
    \/ SignalStop
    \/ JoinMonitor
    \/ FinalSummary
    \/ MonitorStep
    \/ WorkerStep("a.zst")

SpecArchive == InitArchive /\ [][NextArchive]_vars

-----------------------------------------------------------------------------
(* SpecEmbed: one run of create_and_save_embeddings over a table of up to  *)
(* MaxRows rows, each English or not, fetched in pages of up to            *)
(* MaxPageSize rows, with a model of dimension up to MaxDim; a file of an  *)
(* earlier run may exist.                                                  *)

MaxRows == 3
MaxPageSize == 2
MaxDim == 2

TableRows(n) == UNION {[1..k -> {"en", "xx"}] : k \in 0..n}

StaleStore == [dim |-> 1, vectors |-> <<"old">>, ids |-> <<"old">>]

InitEmbed ==
    /\ FilterIdle
    /\ IngestIdle
    /\ \E langs \in TableRows(MaxRows) :
          rows = [i \in 1..Len(langs) |-> [id |-> "r" \o Digits[i], lang |-> langs[i]]]
    /\ page_size \in 1..MaxPageSize
    /\ modelDim \in 1..MaxDim
    /\ epc = "fetch"
    /\ store \in {<<>>, <<StaleStore>>}
    /\ EmbedStart

NextEmbed ==
    \/ FetchPage
    \/ GenerateEmbeddings
    \/ InitializeStore
    \/ AppendResizeEmbeddings
    \/ AppendWriteEmbeddings
    \/ AppendResizeIds
    \/ AppendWriteIds
    \/ CountProcessed
    \/ FinalShapes

SpecEmbed == InitEmbed /\ [][NextEmbed]_vars

\* The coordinator is one sequential thread: it takes its next step
\* whenever it has one.
LiveEmbed == SpecEmbed /\ WF_vars(NextEmbed)

-----------------------------------------------------------------------------
(* SpecAppend: append_ids_embeddings_to_h5 called once on a store of       *)
(* dimension up to MaxDim, empty or holding one entry, with an array of 1  *)
(* to MaxAppendRows rows of a width up to MaxDim and up to MaxAppendRows   *)
(* ids: every combination, those that break the precondition included.    *)

MaxAppendRows == 2

\* The first n of the ids "n1", "n2", ...
NewIds(n) == [i \in 1..n |-> "n" \o Digits[i]]

InitAppend ==
    /\ FilterIdle
    /\ IngestIdle
    /\ rows = <<>>
    /\ page_size = 1
    /\ modelDim \in 1..MaxDim
    /\ epc = "append"
    /\ \E dim \in 1..MaxDim, held \in {<<>>, <<"old">>} :
          store = <<[dim |-> dim, vectors |-> held, ids |-> held]>>
    /\ \E n \in 1..MaxAppendRows :
          embeddings = [ndim |-> 2, rows |-> NewIds(n), width |-> modelDim]
    /\ \E m \in 0..MaxAppendRows : batch_ids = NewIds(m)
    /\ texts = embeddings.rows
    /\ h5_file = H5Path
    /\ fetched = 0
    /\ total_processed = 0
    /\ new_size = 0
    /\ eFailure = ""
    /\ generateCalls = <<>>
    /\ firstDim = 0
    /\ creates = 0
    /\ appends = 0
    /\ pages = <<>>

NextAppend ==
    \/ AppendResizeEmbeddings
    \/ AppendWriteEmbeddings
    \/ AppendResizeIds
    \/ AppendWriteIds
    \/ CountProcessed

SpecAppend == InitAppend /\ [][NextAppend]_vars

-----------------------------------------------------------------------------
(* SpecFilter: the filter applied once to a raw record drawn from a        *)
(* bounded set of well-typed records (title, selftext strings; score an    *)
(* integer; media null, an empty object or a non-empty object; any of the  *)
(* four keys may be missing).                                              *)

Titles == {Repeat("t", n) : n \in 0..MaxStrLen}
Selftexts == {Repeat("s", n) : n \in 0..MaxStrLen}
Scores == (-MaxScore)..MaxScore
EmptyMedia == "{}"
Medias == {None, EmptyMedia, "{oembed}"}

FullRecords ==
    [title : Titles, selftext : Selftexts, score : Scores, media : Medias,
     id : {"p1"}]

OptionalKeys == {"title", "selftext", "score", "media"}

FilterRecords ==
    {[k \in ks \cup {"id"} |-> full[k]] :
        full \in FullRecords, ks \in SUBSET OptionalKeys}

InitFilter ==
    /\ fpc = "input"
    /\ fRecord \in FilterRecords
    /\ fMinChars \in 0..MaxMinChars
    /\ fMinScore \in (-1)..MaxScore
    /\ fResult = NoPost
    /\ IngestIdle
    /\ EmbedIdle

ApplyFilter ==
    /\ fpc = "input"
    /\ fResult' = filter_submissions_by_content_length(fRecord, fMinChars, fMinScore)
    /\ fpc' = "done"
    /\ UNCHANGED <<fRecord, fMinChars, fMinScore, ingestVars, embedVars>>

NextFilter == ApplyFilter

SpecFilter == InitFilter /\ [][NextFilter]_vars

-----------------------------------------------------------------------------
(* Claims about the record filter (SpecFilter).                            *)

\* The filter's decision as the specification words it, for the effective
\* selftext eff.
KeptWith(eff) ==
    /\ Len(Get(fRecord, "title", "") \o eff) > fMinChars
    /\ \/ Get(fRecord, "score", 0) <= -fMinScore
       \/ Get(fRecord, "score", 0) >= fMinScore

\* "" when the record carries NON-EMPTY media metadata, else the raw selftext.
SelftextUnlessNonEmptyMedia ==
    IF Get(fRecord, "media", None) \notin {None, EmptyMedia}
    THEN "" ELSE Get(fRecord, "selftext", "")

\* "" when the record's media field is present and not null, else the raw
\* selftext.
SelftextUnlessMediaPresent ==
    IF "media" \in DOMAIN fRecord /\ fRecord["media"] # None
    THEN "" ELSE Get(fRecord, "selftext", "")

-----------------------------------------------------------------------------
(* Claims about the ingestion run (Spec, LiveSpec, SpecArchive).           *)

StartedWorkers == {w \in ArchiveNames : Started(w)}

\* The lines of an archive that are JSON and pass the filter.
KeptLines(arch) ==
    {i \in 1..Len(arch) :
        /\ arch[i].kind = "json"
        /\ filter_submissions_by_content_length(
               arch[i].rec, MIN_POST_LENGTH, MIN_SCORE) # NoPost}

\* The workers have all been joined.
WorkersJoined == mainPc \in {"stop", "joinmon", "summary", "done", "crashed"}

\* The thread read its archive to the end of the stream.
ReadToEnd(w) ==
    \/ wpc[w] \in {"final", "dlock", "dstore", "report", "done"}
    \/ failure[w] = "ZeroDivisionError"

\* C2: N >= 1 workers, each reading an archive whose M lines all pass the
\* filter, no flush failing: once all workers have finished, rows_written
\* is N*M and rows_discarded is 0.
C2_CountersExact ==
    (/\ WorkersJoined
     /\ StartedWorkers # {}
     /\ \A w \in StartedWorkers :
           /\ ReadToEnd(w)
           /\ flushFailed[w] = 0
           /\ Cardinality(KeptLines(archive[w])) = Len(archive[w])
           /\ \A v \in StartedWorkers : Len(archive[v]) = Len(archive[w]))
    => /\ \A w \in StartedWorkers :
             row_count = Cardinality(StartedWorkers) * Len(archive[w])
       /\ discarded_rows = 0

\* C3: when a worker has finished its archive (no flush rejected), the rows
\* it counted as written plus the rows it counted as discarded are the
\* lines that parsed.
C3_FileCountsBalance ==
    \A w \in ArchiveNames :
        (/\ wpc[w] \in {"report", "done"} \/ failure[w] = "ZeroDivisionError"
         /\ flushFailed[w] = 0)
        => local_row_count[w] + discarded_rows_local[w] = parsedOk[w]

\* C6: for an archive of decodable lines, once the stream is read to its
\* end every line was handed to the parser exactly once, whole and in
\* order, and no part of a line was.
C6_EachLineParsedOnce ==
    \A w \in ArchiveNames :
        (/\ ReadToEnd(w)
         /\ \A i \in 1..Len(archive[w]) : archive[w][i].kind # "undecodable")
        => /\ wholeParsed[w] = [i \in 1..Len(archive[w]) |-> i]
           /\ fragments[w] = 0

\* C8: the table is dropped and recreated at most once in a run; it has
\* been, exactly once, whenever a worker has started and when the run ends,
\* so no drop/create happens after the first worker started.
C8_TableSetupOnceBeforeWorkers ==
    /\ setupCount <= 1
    /\ \A w \in ArchiveNames : Started(w) => setupCount = 1
    /\ mainPc \in {"done", "crashed"} => setupCount = 1

\* Two workers are running on the table set up once, the stale row gone.
C8_Witness ==
    /\ \A w \in ArchiveNames : Running(w)
    /\ \E w \in ArchiveNames : wpc[w] = "flush"
    /\ setupCount = 1
    /\ StaleRow \notin table

\* C9: the stop flag is set only when every started worker has finished;
\* once it is set the monitor eventually terminates; the coordinator is past
\* the monitor's join only when the monitor has terminated.
C9_MonitorStoppedAndJoined ==
    /\ [](stop_monitor => \A w \in ArchiveNames : Started(w) => Finished(w))
    /\ (stop_monitor ~> monPc = "done")
    /\ [](mainPc \in {"summary", "done", "crashed"} => monPc = "done")

\* The run has ended, a worker ended with an error, the monitor was stopped
\* and joined.
C9_Witness ==
    /\ mainPc = "done"
    /\ \E w \in ArchiveNames : wpc[w] = "crashed"
    /\ \E w \in ArchiveNames : wpc[w] = "done"
    /\ stop_monitor
    /\ monPc = "done"

\* The workers whose failure the final summary reports.
FailuresInSummary ==
    IF summary # <<>> /\ "failed" \in DOMAIN summary[1]
    THEN summary[1].failed ELSE {}

\* C10: when the coordinator has logged its final summary and a worker had
\* aborted, every sibling ran to completion and the summary reports the
\* worker's failure.
C10_FailureSurfaced ==
    mainPc = "done" =>
        \A w \in ArchiveNames :
            failure[w] # "" =>
                /\ \A v \in StartedWorkers \ {w} : Finished(v)
                /\ w \in FailuresInSummary

-----------------------------------------------------------------------------
(* Claims about the embedding run (SpecEmbed).                             *)

\* No append is under way: the coordinator is between two calls of
\* append_ids_embeddings_to_h5, or the run has ended.
BetweenAppends == epc \in {"fetch", "encode", "init", "append", "count", "final", "done"}

\* C4: once the store was initialised in this run, after every append that
\* returned the store holds as many ids as vector rows, and its width is the
\* dimension of the first non-empty batch of embeddings of the run.
C4_StoreLengthsAndWidth ==
    (h5_file # None /\ BetweenAppends) =>
        /\ Len(store[1].ids) = Len(store[1].vectors)
        /\ store[1].dim = firstDim

\* Two appends have returned and the store holds the ids and the vectors of
\* both batches.
C4_Witness ==
    /\ h5_file # None
    /\ epc = "count"
    /\ appends = 2
    /\ Len(store[1].ids) = 2
    /\ Len(store[1].vectors) = 2
    /\ store[1].dim = modelDim

\* C5: in every state the store can be left in (between appends, at the end
\* of the run, after an append that failed) the ids and the vectors have the
\* same length.
C5_AppendAtomic ==
    (store # <<>> /\ (BetweenAppends \/ epc = "crashed")) =>
        Len(store[1].ids) = Len(store[1].vectors)

\* C7: the generator is never called with an empty list of texts, and the
\* store is neither created nor appended to for a page whose list is empty;
\* in a run where no page has an English row the file is never created.
C7_EmptyPagesSkipped ==
    /\ \A k \in 1..Len(generateCalls) : generateCalls[k] > 0
    /\ epc \in {"init", "append", "write_embeddings", "resize_ids", "write_ids"}
          => texts # <<>>
    /\ (\A i \in 1..Len(rows) : rows[i].lang # "en") => creates = 0

-----------------------------------------------------------------------------
(* Claims about the sink and the counters (SpecArchive, Spec).             *)

\* The records of the archive that pass the filter, in archive order.
KeptRecords(arch) ==
    LET RECURSIVE From(_)
        From(i) ==
            IF i > Len(arch) THEN <<>>
            ELSE IF i \in KeptLines(arch)
            THEN <<filter_submissions_by_content_length(
                       arch[i].rec, MIN_POST_LENGTH, MIN_SCORE)[1]>> \o From(i + 1)
            ELSE From(i + 1)
    IN  From(1)

\* The batches handed to the sink, one after the other.
RECURSIVE Flatten(_)
Flatten(batches) ==
    IF batches = <<>> THEN <<>> ELSE Head(batches) \o Flatten(Tail(batches))

\* Every line of the archive reached the parser whole.
NoLineSplit(w) ==
    /\ fragments[w] = 0
    /\ wholeParsed[w] = [i \in 1..Len(archive[w]) |-> i]

\* The worker is past its last flush (lines 160-161).
PastFinalFlush(w) ==
    \/ wpc[w] \in {"dlock", "dstore", "report", "done"}
    \/ failure[w] = "ZeroDivisionError"

\* C11: a flush the sink rejects leaves the table exactly as it was (none of
\* the batch's rows persisted, the rows of earlier batches still there) and
\* the worker goes on: it is not ended by the rejection, and a worker that
\* is past its last flush has handed every kept record to the sink, rejected
\* flushes or not.
C11_FlushAllOrNothing ==
    /\ [][\A w \in ArchiveNames :
             flushFailed'[w] > flushFailed[w] =>
                 /\ table' = table
                 /\ wpc'[w] \in {"count", "dlock"}]_vars
    /\ [](\A w \in ArchiveNames :
             (PastFinalFlush(w) /\ NoLineSplit(w)) =>
                 Flatten(flushed[w]) = KeptRecords(archive[w]))

\* C12: rows_written never exceeds the rows committed to the sink: once the
\* table was recreated it holds exactly the rows of the committed batches
\* (the ids of a run are distinct), and row_count is at most their number;
\* a rejected flush adds nothing to row_count.
C12_CountedOnlyWhenCommitted ==
    setupCount = 1 => row_count <= Cardinality(table)

\* The lines of an archive that do not parse as a record: text that is not
\* JSON and bytes that are not UTF-8.
UnparsableLines(arch) == {i \in 1..Len(arch) : arch[i].kind # "json"}

\* The whole archive is read in one window: no line straddles a boundary.
OneWindow(w) == Len(ByteStream(archive[w])) <= WindowBytes

\* C13: a worker that got to the end of its archive (read in one window)
\* was not ended by an unparsable line, and its local discard count holds
\* one for every line that failed to parse and one for every record the
\* filter rejected.
C13_ParseFailuresDiscarded ==
    \A w \in ArchiveNames :
        (OneWindow(w) /\ ReadToEnd(w)) =>
            discarded_rows_local[w] =
                Len(archive[w]) - Cardinality(KeptLines(archive[w]))

-----------------------------------------------------------------------------
(* Claims about a re-run (SpecRerun).                                      *)

\* C14: when the second run over the same archives has ended (neither run
\* with a failed worker or a rejected flush), the table holds as many rows
\* as after the first run and the summary reports the same rows written and
\* rows discarded.
C14_RerunReproduces ==
    (/\ firstRun # <<>>
     /\ mainPc = "done"
     /\ firstRun[1].clean
     /\ CleanRun)
    => /\ Cardinality(table) = firstRun[1].rows
       /\ summary[1].rows_written = firstRun[1].summary.rows_written
       /\ summary[1].rows_discarded = firstRun[1].summary.rows_discarded

-----------------------------------------------------------------------------
(* Further claims about the vector store (SpecEmbed).                      *)

\* The ids of the English rows fetched so far, in table order: the batches
\* handed to the appends of the run, one after the other.
AppendedSoFar == prepare_ids(SubSeq(rows, 1, fetched))

\* Every page fetched so far has been through its append.
AppendsReturned == epc \in {"count", "fetch", "final", "done"}

\* C15: in a store created empty in this run, after the appends of the
\* batches fetched so far have returned, the ids are the ids of the batches
\* in order (so n1+...+nk of them, each batch at [old_length, old_length+n),
\* the earlier entries untouched), the vectors are as many, vector i is
\* the vector of id i, and the width is the model's dimension D.
C15_AppendsExtendInOrder ==
    (h5_file # None /\ AppendsReturned) =>
        /\ store[1].ids = AppendedSoFar
        /\ store[1].vectors = AppendedSoFar
        /\ store[1].dim = modelDim

\* Two appends, of two ids and then of one, have returned: the store holds
\* the three ids in table order.
C15_Witness ==
    /\ epc = "done"
    /\ appends = 2
    /\ page_size = 2
    /\ Len(store[1].ids) = 3
    /\ store[1].ids = [i \in 1..3 |-> rows[i].id]
    /\ store[1].vectors = store[1].ids

\* C16: a create yields a store with no ids, no vectors and the width
\* asked for; where a store already exists at the path (no overwrite was
\* asked for: the coordinator has no such option) the create fails and
\* leaves that store as it is.
C16_CreateRefusesExisting ==
    /\ [][creates' = creates + 1 =>
             store' = <<[dim |-> embeddings.width, vectors |-> <<>>, ids |-> <<>>]>>]_vars
    /\ [][(epc = "init" /\ store # <<>>) =>
             (store' = store /\ creates' = creates /\ epc' = "crashed")]_vars

-----------------------------------------------------------------------------
(* Claims about one append (SpecAppend).                                   *)

\* The batch meets the precondition of append: as many ids as vector rows,
\* vectors of the store's width.
AppendPrecondition ==
    /\ Len(batch_ids) = Len(embeddings.rows)
    /\ embeddings.width = store[1].dim

\* C17: an append returns only for a batch that meets the precondition; for
\* any other batch it ends with an error and the run aborts.
C17_AppendRejectsMismatch ==
    [][appends' = appends + 1 => AppendPrecondition]_vars

-----------------------------------------------------------------------------
(* Claims about the lock and the batches (Spec, SpecArchive).              *)

\* Thread w takes a step from position pc.
StepsFrom(w, pc) == wpc[w] = pc /\ wpc'[w] # pc

\* C18: every step of a worker that reads or writes row_count or
\* discarded_rows is taken holding row_count_lock (the steps that acquire
\* it and read hold it afterwards), the monitor prints row_count holding
\* it, and no two threads are inside the lock at once.
C18_CountersUnderMutex ==
    /\ [][\A w \in ArchiveNames :
             /\ (StepsFrom(w, "count") \/ StepsFrom(w, "dlock")) => lockHolder' = w
             /\ (StepsFrom(w, "store") \/ StepsFrom(w, "dstore")
                   \/ StepsFrom(w, "report")) => lockHolder = w]_vars
    /\ [][(monPc = "print" /\ monPc' # "print") => lockHolder = Monitor]_vars
    /\ [](\A w \in ArchiveNames :
             wpc[w] \in {"store", "dstore"} =>
                 /\ lockHolder = w
                 /\ monPc # "print"
                 /\ \A v \in ArchiveNames \ {w} : wpc[v] \notin {"store", "dstore"})

-----------------------------------------------------------------------------
(* Claims about the batch fetcher (LiveEmbed).                             *)

\* C19: every page the fetcher yields has at least one row and at most
\* page_size rows; the pages yielded so far, one after the other, are the
\* rows of the table up to the cursor; the sequence ends (at the first
\* empty fetch) only when they are all the rows, each once; and the loop of
\* the pipeline comes to an end.
C19_FetcherPagesCoverTable ==
    /\ [](\A k \in 1..Len(pages) : Len(pages[k]) \in 1..page_size)
    /\ [](Flatten(pages) = SubSeq(rows, 1, fetched))
    /\ [](epc \in {"final", "done"} => Flatten(pages) = rows)
    /\ <>(epc \in {"done", "crashed"})

\* A table of three rows was fetched in pages of two: a page of two rows,
\* a page of one, and the run has ended.
C19_Witness ==
    /\ epc = "done"
    /\ Len(rows) = 3
    /\ page_size = 2
    /\ Len(pages) = 2
    /\ Len(pages[1]) = 2
    /\ Len(pages[2]) = 1

-----------------------------------------------------------------------------
(* Claims about the batches of a worker (SpecArchive).                     *)

\* The kept records carry exactly the sink's columns, with distinct ids.
SinkAccepts(arch) ==
    /\ \A k \in 1..Len(KeptRecords(arch)) : HasExpectedKeys(KeptRecords(arch)[k])
    /\ \A j, k \in 1..Len(KeptRecords(arch)) :
          KeptRecords(arch)[j].id = KeptRecords(arch)[k].id => j = k

\* C20: between lines the buffer of a worker holds fewer than batch_size
\* records (it holds batch_size only at the flush); every batch handed to
\* the sink has between 1 and batch_size records; a worker past its last
\* flush has handed every kept record to the sink exactly once and in
\* archive order; and where the sink accepted every flush the table holds
\* the kept records and the discard count is the number of records the
\* filter rejected.
C20_BatchesBoundedAndComplete ==
    \A w \in ArchiveNames :
        /\ wpc[w] \notin {"flush", "crashed"} => Len(rows_buffer[w]) < batch_size
        /\ wpc[w] = "flush" => Len(rows_buffer[w]) = batch_size
        /\ \A k \in 1..Len(flushed[w]) : Len(flushed[w][k]) \in 1..batch_size
        /\ (PastFinalFlush(w) /\ NoLineSplit(w)) =>
              /\ Flatten(flushed[w]) = KeptRecords(archive[w])
              /\ discarded_rows_local[w] =
                    parsedOk[w] - Cardinality(KeptLines(archive[w]))
              /\ (flushFailed[w] = 0 /\ SinkAccepts(archive[w])) =>
                    TableIds(table) =
                        {KeptRecords(archive[w])[k].id :
                            k \in 1..Len(KeptRecords(archive[w]))}

\* Three records of which the last alone passes the filter: the worker has
\* finished, one flush, one row in the table, discard count 2.
C20_Witness ==
    LET w == "a.zst"
    IN  /\ wpc[w] = "done"
        /\ Len(archive[w]) = 3
        /\ KeptLines(archive[w]) = {3}
        /\ parsedOk[w] = 3
        /\ Len(flushed[w]) = 1
        /\ Cardinality(table) = 1
        /\ discarded_rows_local[w] = 2

-----------------------------------------------------------------------------
(* Claims about rows with other keys than the sink's columns (SpecArchive).*)

\* The rows of a batch whose key set is the expected column set.
MatchingRows(batch) ==
    {batch[k] : k \in {j \in 1..Len(batch) : HasExpectedKeys(batch[j])}}

\* C21: whatever the position in the batch of the rows whose keys differ
\* from the expected columns, a flush raises no error for them and, unless
\* the sink rejects it, adds to the table exactly the rows of the batch
\* whose keys match; the worker continues.
C21_MismatchedRowsExcludedAlone ==
    [][\A w \in ArchiveNames :
          Len(flushed'[w]) = Len(flushed[w]) + 1 =>
              LET batch == flushed'[w][Len(flushed'[w])]
              IN  /\ failure'[w] # "KeyError"
                  /\ flushFailed'[w] = flushFailed[w] =>
                        /\ table' = table \cup MatchingRows(batch)
                        /\ wpc'[w] \in {"count", "dlock"}]_vars

-----------------------------------------------------------------------------
(* Claims about the reports (Spec).                                        *)

\* The records the workers of the run parsed successfully.
ParsedInRun == parsedOk["a.zst"] + parsedOk["b.zst"]

\* C22: the coordinator never ends with an exception and no worker ends in
\* its end-of-file report (an empty directory and a run that wrote and
\* discarded nothing included); when the coordinator has returned, the
\* summary was emitted with the counters, and the total its ratio divides by
\* is the number of successfully parsed records.
C22_SummaryAlwaysEmitted ==
    /\ mainPc # "crashed"
    /\ \A w \in ArchiveNames : failure[w] # "ZeroDivisionError"
    /\ mainPc = "done" =>
          /\ summary # <<>>
          /\ summary[1].rows_written = row_count
          /\ summary[1].rows_discarded = discarded_rows
          /\ CleanRun => summary[1].total = ParsedInRun

-----------------------------------------------------------------------------
(* Claims about the running total (SpecEmbed).                             *)

\* The iteration of the current page is complete (or the loop has ended).
BetweenPages == epc \in {"fetch", "final", "done"}

\* C23: the store is created at most once in a run; nothing is counted
\* before it is created; once it is, after every completed iteration and at
\* the end of the run total_processed is the number of ids in the store;
\* and no step makes the store of the run shorter.
C23_TotalMatchesStore ==
    /\ [](creates <= 1)
    /\ [](h5_file = None => total_processed = 0)
    /\ []((h5_file # None /\ BetweenPages) =>
              total_processed = Len(store[1].ids))
    /\ [][h5_file # None => Len(store'[1].ids) >= Len(store[1].ids)]_vars

\* The run has ended after two pages were appended to the store created
\* for the first: three ids stored, three counted.
C23_Witness ==
    /\ epc = "done"
    /\ creates = 1
    /\ appends = 2
    /\ total_processed = 3
    /\ Len(store[1].ids) = 3

=============================================================================
